---- MODULE Spec2Model ----
(***************************************************************************)
(* The request handlers of app_backup.py (Flask) as a state machine.       *)
(* State: the records the storage facade persists (User, Roadmap, Topic,   *)
(* Objectives, Resources) and the response of the last request.  Every     *)
(* action is one request handled from beginning to end, including the case *)
(* where an exception ends it part-way (the saves made before the          *)
(* exception stay persisted: there is no rollback in the code).            *)
(*                                                                         *)
(* The modules models.storage and auth.Auth are imported by the file but   *)
(* are not part of it; they are modelled from the specification (sections  *)
(* 2, 3 and 4.1): see "Storage facade" and "Auth" below.                   *)
(***************************************************************************)
EXTENDS Integers, Sequences, FiniteSets, TLC

VARIABLES
    users,        \* id -> User record, for the persisted users
    roadmaps,     \* id -> Roadmap record, for the persisted roadmaps
    topics,       \* set of persisted Topic records
    objectives,   \* set of persisted Objectives records
    resources,    \* set of persisted Resources records
    nextUser,     \* number of User ids generated so far, plus one
    nextRoadmap,  \* number of Roadmap ids generated so far, plus one
    nextSession,  \* number of session ids generated so far, plus one
    cascade,      \* the storage engine's policy on deleting a Roadmap's children
    created,      \* history: roadmap id -> topic names of the payload, for each create answered 201
    destroyed,    \* history: the session ids that a logout destroyed
    response      \* the last request and the response it was given

vars == <<users, roadmaps, topics, objectives, resources, nextUser, nextRoadmap,
          nextSession, cascade, created, destroyed, response>>

store == <<users, roadmaps, topics, objectives, resources>>

-----------------------------------------------------------------------------
(* Bounds of the model *)

\* User records ever registered
MaxUsers == 2
\* Roadmap records ever saved
MaxRoadmaps == 1
\* topic entries in one create_roadmap payload
MaxTopics == 2
\* session ids ever issued
MaxSessions == 3

\* Python's None, for ids and session ids (generated ids start at 1)
None == 0

Emails == {"a@x", "b@x"}
Passwords == {"pw1", "pw2"}
\* the topic names of the payloads, in alphabetical order
TopicNames == <<"A", "B", "C", "D">>
\* values of the request's new_status; "" stands for a missing or empty one
NewStatuses == {"", "planning", "in_progress", "completed", "archived"}

RoadmapKeys == {"Title", "Introduction", "AdditionalInfo", "Topics"}
TopicKeys == {"TopicName", "Descriptions", "Milestones", "LearningObjectives", "Resources"}

\* One topic entry of a payload: the keys it has and the values under them.
FullEntry(name, objs, res) ==
    [keys |-> TopicKeys, TopicName |-> name, LearningObjectives |-> objs, Resources |-> res]

\* The complete topic entry of a name: the first name comes with a learning
\* objective and a resource, the others with empty lists.
EntryOf(name) ==
    IF name = TopicNames[1] THEN FullEntry(name, <<"o1">>, <<"r1">>)
    ELSE FullEntry(name, <<>>, <<>>)

\* Topic entries lacking one key.
BrokenEntries ==
    {[EntryOf(TopicNames[1]) EXCEPT !.keys = TopicKeys \ {k}] : k \in TopicKeys}

\* The lists of n complete entries: names in alphabetical order, and in the
\* reverse order (so that the order of the names is not the order of the list).
CompleteLists(n) ==
    {[k \in 1..n |-> EntryOf(TopicNames[k])], [k \in 1..n |-> EntryOf(TopicNames[n + 1 - k])]}

\* The "Topics" lists of a payload: of complete entries, or with an entry
\* lacking a key in the last place (the entries after such an entry are never
\* read: the KeyError ends the request).
TopicLists ==
    UNION {CompleteLists(n) : n \in 0..MaxTopics}
    \cup {Append(T, e) : T \in UNION {CompleteLists(n) : n \in 0..(MaxTopics - 1)},
                         e \in BrokenEntries}

\* The "Roadmap" values of a request body; keys = {} is a missing or empty one.
RoadmapPayloads ==
    {[keys |-> {}, Topics |-> <<>>]}
    \cup {[keys |-> RoadmapKeys, Topics |-> T] : T \in TopicLists}
    \cup {[keys |-> RoadmapKeys \ {k}, Topics |-> <<EntryOf(TopicNames[1])>>] : k \in RoadmapKeys}

UserIds == 1..MaxUsers
RoadmapIds == 1..MaxRoadmaps
SessionIds == 1..MaxSessions

-----------------------------------------------------------------------------
(* The response of a request *)

\* op: the handler; arg: the id the request names (roadmap id, user id or the
\* session_id cookie); keys: the keys of the Roadmap payload; text: new_status
\* or email of the request; password: of the request; status: the HTTP status;
\* key: the key of the JSON body ("Error", "error"), "json" for a success body,
\* "html" for the framework's own error page; out: the id returned (roadmap_id,
\* or the session_id cookie set); email, topics: of the body.
NoResponse ==
    [op |-> "none", arg |-> None, keys |-> {}, text |-> "", password |-> "",
     status |-> 0, key |-> "json", out |-> None, email |-> "", topics |-> <<>>]

\* abort(code, <kw>=...): with the keyword "description" the HTTPException is
\* raised and the registered error handler answers {"Error": ...} with the
\* code; any other keyword is rejected by the exception's constructor
\* (TypeError), which no handler catches: the framework answers 500.
abort(r, code, kw) ==
    IF kw = "description"
    THEN [r EXCEPT !.status = code, !.key = "Error"]
    ELSE [r EXCEPT !.status = 500, !.key = "html"]

\* An exception no handler catches (KeyError on a missing key).
unhandled(r) == [r EXCEPT !.status = 500, !.key = "html"]

-----------------------------------------------------------------------------
(* Storage facade *)

\* storage.show(cls, id): the object, or None.  An object is referred to by its
\* id; its fields are table[id].
show(table, id) == IF id \in DOMAIN table THEN id ELSE None

\* storage.fetch(cls, parent_id): the records of the parent
fetchTopics(roadmap_id) == {t \in topics : t.roadmap_id = roadmap_id}

\* the orders in which the values of a fetched dictionary can come
Orderings(S) ==
    {f \in [1..Cardinality(S) -> S] : \A i, j \in 1..Cardinality(S) : i # j => f[i] # f[j]}

Remove(f, id) == [k \in DOMAIN f \ {id} |-> f[k]]

Put(f, id, v) == [k \in DOMAIN f \cup {id} |-> IF k = id THEN v ELSE f[k]]

-----------------------------------------------------------------------------
(* Auth *)

\* the one-way hash of a password
Hash(password) == <<"hashed", password>>

UserByEmail(email) == {u \in DOMAIN users : users[u].email = email}

valid_login(email, password) ==
    \E u \in UserByEmail(email) : users[u].hashed_password = Hash(password)

\* AUTH.get_user_from_session_id: the user id, or None
get_user_from_session_id(session_id) ==
    IF session_id = None \/ ~\E u \in DOMAIN users : users[u].session_id = session_id
    THEN None
    ELSE CHOOSE u \in DOMAIN users : users[u].session_id = session_id


\* AUTH.register_user / the User record a registration persists
NewUser(email, password) ==
    [email |-> email, hashed_password |-> Hash(password), session_id |-> None]

-----------------------------------------------------------------------------
(* Handlers: users and sessions *)

\* POST /users
register_user(email, password) ==
    LET r == [NoResponse EXCEPT !.op = "register_user", !.text = email, !.password = password]
    IN  IF UserByEmail(email) # {}
        THEN /\ response' = abort(r, 400, "description")
             /\ UNCHANGED <<users, nextUser>>
        ELSE /\ nextUser <= MaxUsers
             /\ users' = Put(users, nextUser, NewUser(email, password))
             /\ nextUser' = nextUser + 1
             /\ response' = [r EXCEPT !.status = 200]

\* POST /sessions
login(email, password) ==
    LET r == [NoResponse EXCEPT !.op = "login", !.text = email, !.password = password]
    IN  IF ~valid_login(email, password)
        THEN /\ response' = abort(r, 403, "desciption")
             /\ UNCHANGED <<users, nextSession>>
        ELSE LET u == CHOOSE u \in UserByEmail(email) : TRUE
                 session_id == nextSession
             IN  /\ nextSession <= MaxSessions
                 /\ users' = [users EXCEPT ![u].session_id = session_id]
                 /\ nextSession' = nextSession + 1
                 /\ response' = [r EXCEPT !.status = 200, !.out = session_id]

\* DELETE /sessions, sent without destroying the session
logout_keeps_session(session_id) ==
    LET r == [NoResponse EXCEPT !.op = "logout", !.arg = session_id]
        user == get_user_from_session_id(session_id)
    IN  /\ response' = IF user = None THEN abort(r, 404, "description")
                       ELSE [r EXCEPT !.status = 302]
        /\ destroyed' = IF user = None THEN destroyed ELSE destroyed \cup {session_id}
        /\ UNCHANGED users

\* DELETE /sessions
logout(session_id) ==
    LET r == [NoResponse EXCEPT !.op = "logout", !.arg = session_id]
        user == get_user_from_session_id(session_id)
    IN  IF user = None
        THEN /\ response' = abort(r, 404, "description")
             /\ UNCHANGED <<users, destroyed>>
        ELSE /\ users' = [users EXCEPT ![user].session_id = None]
             /\ destroyed' = destroyed \cup {session_id}
             /\ response' = [r EXCEPT !.status = 302]

\* GET /profile
profile(session_id) ==
    LET r == [NoResponse EXCEPT !.op = "profile", !.arg = session_id]
        user == get_user_from_session_id(session_id)
    IN  response' = IF user = None THEN abort(r, 404, "description")
                    ELSE [r EXCEPT !.status = 200, !.email = users[user].email]

\* DELETE /users
delete_user(email, password) ==
    LET r == [NoResponse EXCEPT !.op = "delete_user", !.text = email, !.password = password]
    IN  IF email = "" \/ password = ""
        THEN /\ response' = abort(r, 400, "description")
             /\ UNCHANGED users
        ELSE IF ~valid_login(email, password)
        THEN /\ response' = abort(r, 403, "description")
             /\ UNCHANGED users
        ELSE /\ users' = Remove(users, CHOOSE u \in UserByEmail(email) : TRUE)
             /\ response' = [r EXCEPT !.status = 200]

-----------------------------------------------------------------------------
(* Handlers: roadmaps *)

\* the test of create_roadmap on the user, never true
UserNeverMissing(user) == FALSE

\* "if not user" of create_roadmap
UserMissing(user) == user = None

\* "position += 1" of create_roadmap
NextPosition(position) == position + 1

\* The loop of create_roadmap over roadmap_response["Topics"], from entry i on.
\* st holds the Topic, Objectives and Resources records persisted so far and
\* whether an exception (KeyError on a missing key) ended the loop.
RECURSIVE TopicLoop(_, _, _, _, _)
TopicLoop(roadmap_id, Topics, i, position, st) ==
    IF i > Len(Topics) THEN st
    ELSE
    LET topic_data == Topics[i]
        topic == [id |-> <<roadmap_id, i>>, roadmap_id |-> roadmap_id,
                  position |-> position, name |-> topic_data.TopicName]
        objs == {[id |-> <<topic.id, "objective", j>>, topic_id |-> topic.id]
                    : j \in 1..Len(topic_data.LearningObjectives)}
        ress == {[id |-> <<topic.id, "resource", j>>, topic_id |-> topic.id]
                    : j \in 1..Len(topic_data.Resources)}
    IN  IF ~({"TopicName", "Descriptions", "Milestones"} \subseteq topic_data.keys)
        THEN [st EXCEPT !.raised = TRUE]
        ELSE IF "LearningObjectives" \notin topic_data.keys
        THEN [st EXCEPT !.raised = TRUE]
        ELSE IF "Resources" \notin topic_data.keys
        THEN [st EXCEPT !.objectives = @ \cup objs, !.raised = TRUE]
        ELSE TopicLoop(roadmap_id, Topics, i + 1, NextPosition(position),
                       [st EXCEPT !.objectives = @ \cup objs,
                                  !.resources = @ \cup ress,
                                  !.topics = @ \cup {topic}])

\* POST /create_roadmap.  The links roadmap.topic, topic.objectives,
\* topic.resources and user.roadmaps are the parent ids of the records
\* (roadmap_id, topic_id, user_id): appending to them and user.save() add no
\* field of their own.  user.roadmaps raises AttributeError when user is None.
create_roadmap(user_id, roadmap_response) ==
    LET r == [NoResponse EXCEPT !.op = "create_roadmap", !.arg = user_id,
                                !.keys = roadmap_response.keys]
        user == show(users, user_id)
        roadmap == [user_id |-> user_id, planning |-> TRUE, in_progress |-> FALSE,
                    completed |-> FALSE]
        r_id == nextRoadmap
        st == TopicLoop(r_id, roadmap_response.Topics, 1, 1,
                        [topics |-> topics, objectives |-> objectives,
                         resources |-> resources, raised |-> FALSE])
    IN  IF user_id = None
        THEN /\ response' = abort(r, 400, "description")
             /\ UNCHANGED <<roadmaps, topics, objectives, resources, nextRoadmap, created>>
        ELSE IF roadmap_response.keys = {}
        THEN /\ response' = abort(r, 400, "description")
             /\ UNCHANGED <<roadmaps, topics, objectives, resources, nextRoadmap, created>>
        ELSE IF UserMissing(user)
        THEN /\ response' = abort(r, 404, "description")
             /\ UNCHANGED <<roadmaps, topics, objectives, resources, nextRoadmap, created>>
        ELSE IF ~({"Title", "Introduction", "AdditionalInfo"} \subseteq roadmap_response.keys)
        THEN /\ response' = unhandled(r)
             /\ UNCHANGED <<roadmaps, topics, objectives, resources, nextRoadmap, created>>
        ELSE /\ nextRoadmap <= MaxRoadmaps
             /\ roadmaps' = Put(roadmaps, r_id, roadmap)
             /\ nextRoadmap' = nextRoadmap + 1
             /\ IF "Topics" \notin roadmap_response.keys
                THEN /\ response' = unhandled(r)
                     /\ UNCHANGED <<topics, objectives, resources, created>>
                ELSE /\ topics' = st.topics
                     /\ objectives' = st.objectives
                     /\ resources' = st.resources
                     /\ IF st.raised \/ user = None
                        THEN /\ response' = unhandled(r)
                             /\ UNCHANGED created
                        ELSE /\ response' = [r EXCEPT !.status = 201, !.out = r_id]
                             /\ created' = Put(created, r_id,
                                    [k \in DOMAIN roadmap_response.Topics |->
                                        roadmap_response.Topics[k].TopicName])

\* sorted(topics.values(), key=lambda t: t.position): a stable sort
RECURSIVE Insert(_, _)
Insert(x, s) ==
    IF s = <<>> THEN <<x>>
    ELSE IF s[Len(s)].position <= x.position THEN Append(s, x)
    ELSE Append(Insert(x, SubSeq(s, 1, Len(s) - 1)), s[Len(s)])

RECURSIVE InsertionSort(_)
InsertionSort(s) ==
    IF s = <<>> THEN <<>>
    ELSE Insert(s[Len(s)], InsertionSort(SubSeq(s, 1, Len(s) - 1)))

\* the list left in the order the storage yields it
unsorted(s) == s

sorted(s) == InsertionSort(s)

\* topic.to_dict(), the fields the ordering is about
to_dict(t) == [position |-> t.position, name |-> t.name]

\* GET /roadmap/<roadmap_id>
view_roadmap(roadmap_id) ==
    LET r == [NoResponse EXCEPT !.op = "view_roadmap", !.arg = roadmap_id]
        roadmap == show(roadmaps, roadmap_id)
    IN  IF roadmap = None
        THEN response' = [r EXCEPT !.status = 404, !.key = "error"]
        ELSE \E values \in Orderings(fetchTopics(roadmap_id)) :
                response' = [r EXCEPT !.status = 200,
                                      !.topics = [k \in DOMAIN values |-> to_dict(sorted(values)[k])]]

\* the same branches, each setting its flag and leaving the other two as they are
SetStatusKeepsOthers(roadmap, new_status) ==
    IF new_status = "planning" THEN [roadmap EXCEPT !.planning = TRUE]
    ELSE IF new_status = "in_progress" THEN [roadmap EXCEPT !.in_progress = TRUE]
    ELSE IF new_status = "completed" THEN [roadmap EXCEPT !.completed = TRUE]
    ELSE roadmap

\* the branches of update_roadmap_status on new_status
SetStatus(roadmap, new_status) ==
    IF new_status = "planning"
    THEN [roadmap EXCEPT !.planning = TRUE, !.in_progress = FALSE, !.completed = FALSE]
    ELSE IF new_status = "in_progress"
    THEN [roadmap EXCEPT !.in_progress = TRUE, !.planning = FALSE, !.completed = FALSE]
    ELSE IF new_status = "completed"
    THEN [roadmap EXCEPT !.completed = TRUE, !.planning = FALSE, !.in_progress = FALSE]
    ELSE roadmap

\* PUT /update_roadmap_status/<roadmap_id>: every abort is raised inside the
\* try block, whose "except Exception" answers 500 with the key "error".
update_roadmap_status(roadmap_id, new_status) ==
    LET r == [NoResponse EXCEPT !.op = "update_roadmap_status", !.arg = roadmap_id,
                                !.text = new_status]
        roadmap == show(roadmaps, roadmap_id)
    IN  IF roadmap = None
        THEN /\ response' = [r EXCEPT !.status = 500, !.key = "error"]
             /\ UNCHANGED roadmaps
        ELSE IF new_status = ""
        THEN /\ response' = [r EXCEPT !.status = 500, !.key = "error"]
             /\ UNCHANGED roadmaps
        ELSE /\ roadmaps' = [roadmaps EXCEPT ![roadmap] = SetStatus(roadmaps[roadmap], new_status)]
             /\ response' = [r EXCEPT !.status = 200]

\* storage.delete(roadmap); storage.save(): the Roadmap record goes; whether
\* its Topic, Objectives and Resources records go with it is the storage
\* engine's policy (cascade), which the handler does not decide.
delete_roadmap(roadmap_id) ==
    LET r == [NoResponse EXCEPT !.op = "delete_roadmap", !.arg = roadmap_id]
        roadmap == show(roadmaps, roadmap_id)
        ts == {t.id : t \in fetchTopics(roadmap_id)}
    IN  IF roadmap = None
        THEN /\ response' = abort(r, 404, "description")
             /\ UNCHANGED <<roadmaps, topics, objectives, resources>>
        ELSE /\ roadmaps' = Remove(roadmaps, roadmap)
             /\ topics' = IF cascade THEN topics \ fetchTopics(roadmap_id) ELSE topics
             /\ objectives' = IF cascade THEN {o \in objectives : o.topic_id \notin ts}
                              ELSE objectives
             /\ resources' = IF cascade THEN {x \in resources : x.topic_id \notin ts}
                             ELSE resources
             /\ response' = [r EXCEPT !.status = 200]

-----------------------------------------------------------------------------
(* Specification *)

\* The user tables the roadmap handlers are started with: no user, or one
\* registered user (whose id is 1); no roadmap handler changes a User record.
InitialUsers == {<<>>, Put(<<>>, 1, NewUser("a@x", "pw1"))}

\* The state the roadmap handlers start in.
Init ==
    /\ users \in InitialUsers
    /\ roadmaps = <<>>
    /\ topics = {}
    /\ objectives = {}
    /\ resources = {}
    /\ nextUser = Cardinality(DOMAIN users) + 1
    /\ nextRoadmap = 1
    /\ nextSession = 1
    /\ cascade \in BOOLEAN
    /\ created = <<>>
    /\ destroyed = {}
    /\ response = NoResponse

\* The state after construction: nothing is persisted.
InitAuth ==
    /\ users = <<>>
    /\ roadmaps = <<>>
    /\ topics = {}
    /\ objectives = {}
    /\ resources = {}
    /\ nextUser = 1
    /\ nextRoadmap = 1
    /\ nextSession = 1
    /\ cascade \in BOOLEAN
    /\ created = <<>>
    /\ destroyed = {}
    /\ response = NoResponse

RegisterUser ==
    /\ \E email \in Emails, password \in Passwords : register_user(email, password)
    /\ UNCHANGED <<roadmaps, topics, objectives, resources, nextRoadmap, nextSession,
                   cascade, created, destroyed>>

DeleteUser ==
    /\ \E email \in Emails \cup {""}, password \in Passwords \cup {""} :
            delete_user(email, password)
    /\ UNCHANGED <<roadmaps, topics, objectives, resources, nextUser, nextRoadmap,
                   nextSession, cascade, created, destroyed>>

Login ==
    /\ \E email \in Emails, password \in Passwords : login(email, password)
    /\ UNCHANGED <<roadmaps, topics, objectives, resources, nextUser, nextRoadmap,
                   cascade, created, destroyed>>

Logout ==
    /\ \E session_id \in SessionIds \cup {None} : logout(session_id)
    /\ UNCHANGED <<roadmaps, topics, objectives, resources, nextUser, nextRoadmap,
                   nextSession, cascade, created>>

Profile ==
    /\ \E session_id \in SessionIds \cup {None} : profile(session_id)
    /\ UNCHANGED <<users, roadmaps, topics, objectives, resources, nextUser, nextRoadmap,
                   nextSession, cascade, created, destroyed>>

CreateRoadmap ==
    /\ \E user_id \in UserIds \cup {None}, roadmap_response \in RoadmapPayloads :
            create_roadmap(user_id, roadmap_response)
    /\ UNCHANGED <<users, nextUser, nextSession, cascade, destroyed>>

ViewRoadmap ==
    /\ \E roadmap_id \in RoadmapIds : view_roadmap(roadmap_id)
    /\ UNCHANGED <<users, roadmaps, topics, objectives, resources, nextUser, nextRoadmap,
                   nextSession, cascade, created, destroyed>>

UpdateRoadmapStatus ==
    /\ \E roadmap_id \in RoadmapIds, new_status \in NewStatuses :
            update_roadmap_status(roadmap_id, new_status)
    /\ UNCHANGED <<users, topics, objectives, resources, nextUser, nextRoadmap,
                   nextSession, cascade, created, destroyed>>

DeleteRoadmap ==
    /\ \E roadmap_id \in RoadmapIds : delete_roadmap(roadmap_id)
    /\ UNCHANGED <<users, nextUser, nextRoadmap, nextSession, cascade, created, destroyed>>

\* The roadmap handlers.
Next ==
    \/ CreateRoadmap
    \/ ViewRoadmap
    \/ UpdateRoadmapStatus
    \/ DeleteRoadmap

Spec == Init /\ [][Next]_vars

\* The user and session handlers.
NextAuth ==
    \/ RegisterUser
    \/ DeleteUser
    \/ Login
    \/ Logout
    \/ Profile

SpecAuth == InitAuth /\ [][NextAuth]_vars

-----------------------------------------------------------------------------
(* Properties *)

Statuses == {"planning", "in_progress", "completed"}

\* the flags of a Roadmap record that are true
FlagsSet(roadmap) == {f \in Statuses : roadmap[f]}

children == <<roadmaps, topics, objectives, resources>>

\* C1, state part: every persisted Roadmap has exactly one of planning,
\* in_progress, completed true; after a create answered 201 the new Roadmap is
\* in planning; after an update_roadmap_status naming one of the three on a
\* persisted Roadmap, the flag that is true is the one named.
C1_Flags ==
    /\ \A id \in DOMAIN roadmaps : Cardinality(FlagsSet(roadmaps[id])) = 1
    /\ (response.op = "create_roadmap" /\ response.status = 201)
            => FlagsSet(roadmaps[response.out]) = {"planning"}
    /\ (/\ response.op = "update_roadmap_status"
        /\ response.text \in Statuses
        /\ response.arg \in DOMAIN roadmaps)
            => FlagsSet(roadmaps[response.arg]) = {response.text}

\* C1, step part: a Roadmap record that a request persists anew has planning
\* true and the other two flags false, whatever the request is answered.
C1_NewIsPlanning ==
    \A id \in DOMAIN roadmaps' \ DOMAIN roadmaps : FlagsSet(roadmaps'[id]) = {"planning"}

\* C1: in every reachable state every persisted Roadmap has exactly one of its
\* three status flags true; a newly created Roadmap has planning true; after an
\* update_roadmap_status naming planning, in_progress or completed, the flag
\* that is true is the one requested.
C1_ExactlyOneStatus == [](C1_Flags) /\ [][C1_NewIsPlanning]_vars

\* C1 happens: an update to "completed" was applied to a persisted Roadmap.
C1_Witness ==
    /\ response.op = "update_roadmap_status"
    /\ response.text = "completed"
    /\ response.arg \in DOMAIN roadmaps
    /\ roadmaps[response.arg].completed

\* C2: an update_roadmap_status request whose id matches no persisted Roadmap
\* is answered 404, and it changes no persisted record.
C2_UnknownRoadmap404 ==
    [][(response'.op = "update_roadmap_status" /\ response'.arg \notin DOMAIN roadmaps)
            => (response'.status = 404 /\ UNCHANGED store)]_vars

\* C3: an update_roadmap_status request on a persisted Roadmap whose new_status
\* is none of planning, in_progress, completed (a missing or empty one
\* included) is answered 403 and leaves the Roadmap's flags as they were.
C3_InvalidStatus403 ==
    [][(/\ response'.op = "update_roadmap_status"
        /\ response'.arg \in DOMAIN roadmaps
        /\ response'.text \notin Statuses)
            => (response'.status = 403 /\ UNCHANGED roadmaps)]_vars

\* C4: a create_roadmap request with an existing user_id and a Roadmap payload
\* without the "Topics" key is answered 400 and persists no Roadmap record.
C4_MissingTopics400 ==
    [][(/\ response'.op = "create_roadmap"
        /\ response'.arg \in DOMAIN users
        /\ response'.keys # {}
        /\ "Topics" \notin response'.keys)
            => (response'.status = 400 /\ UNCHANGED roadmaps)]_vars

\* the topics GET /roadmap/<id> is to return for a payload of these names
Expected(names) == [k \in DOMAIN names |-> [position |-> k, name |-> names[k]]]

\* C5: for every create_roadmap answered 201 with a payload of n topics, the
\* persisted Topics of that Roadmap have the positions 1..n, each once, the
\* k-th entry of the payload at position k; and GET /roadmap/<id> returns them
\* in ascending position (payload order), whatever order the fetch yields.
C5_TopicOrder ==
    /\ \A id \in DOMAIN created \cap DOMAIN roadmaps :
          /\ Cardinality(fetchTopics(id)) = Len(created[id])
          /\ {to_dict(t) : t \in fetchTopics(id)}
                = {Expected(created[id])[k] : k \in DOMAIN created[id]}
    /\ (/\ response.op = "view_roadmap"
        /\ response.status = 200
        /\ response.arg \in DOMAIN created)
            => response.topics = Expected(created[response.arg])

\* C5 happens: a Roadmap created from a payload of at least two topics, whose
\* names are not in alphabetical order, was viewed.
C5_Witness ==
    /\ response.op = "view_roadmap"
    /\ response.status = 200
    /\ response.arg \in DOMAIN created
    /\ Len(response.topics) >= 2
    /\ response.topics[1].name # TopicNames[1]

\* C6: in every reachable persisted state every Topic references a persisted
\* Roadmap and every Objectives and Resources record references a persisted Topic.
C6_ParentsExist ==
    /\ \A t \in topics : t.roadmap_id \in DOMAIN roadmaps
    /\ \A x \in objectives \cup resources : \E t \in topics : t.id = x.topic_id

\* C7, state part: a login answered 200 sets a session_id cookie that is the
\* stored session id of the user of that email; GET /profile with a cookie
\* that is some user's stored session id answers 200 with that user's email,
\* and 404 with any other cookie; no user holds a destroyed session id.
C7_Sessions ==
    /\ (response.op = "login" /\ response.status = 200)
            => /\ response.out # None
               /\ get_user_from_session_id(response.out) # None
               /\ users[get_user_from_session_id(response.out)].email = response.text
    /\ (response.op = "profile")
            => IF get_user_from_session_id(response.arg) = None
               THEN response.status = 404
               ELSE /\ response.status = 200
                    /\ response.email = users[get_user_from_session_id(response.arg)].email
    /\ \A s \in destroyed : get_user_from_session_id(s) = None

\* C7, step part: GET /profile and DELETE /sessions carrying a session id that
\* a logout destroyed are answered 404.
C7_Destroyed404 ==
    (response'.op \in {"profile", "logout"} /\ response'.arg \in destroyed)
        => response'.status = 404

\* C7: after a successful login GET /profile with the issued session_id returns
\* that user's email; after DELETE /sessions with that cookie every later
\* GET /profile or DELETE /sessions carrying the same session_id is answered
\* 404 (a new login issues a new session id, never the destroyed one).
C7_SessionRoundTrip == [](C7_Sessions) /\ [][C7_Destroyed404]_vars

\* C7 happens: GET /profile with a session id that a logout destroyed, after
\* session ids had been issued, answered 404.
C7_Witness ==
    /\ response.op = "profile"
    /\ response.arg \in destroyed
    /\ response.status = 404

\* C8: a login whose (email, password) valid_login rejects is answered 403,
\* changes no user's stored session id and sets no session_id cookie.
C8_RejectedLogin403 ==
    [][(response'.op = "login" /\ ~valid_login(response'.text, response'.password))
            => (response'.status = 403 /\ response'.out = None /\ UNCHANGED users)]_vars

\* C9: every failure response (roadmap not found on GET /roadmap/<id>, the
\* failures of update_roadmap_status, every abort with 400, 403 or 404) is a
\* JSON body whose key is spelled "Error".
C9_ErrorKey ==
    (\/ response.op = "view_roadmap" /\ response.status = 404
     \/ response.op = "update_roadmap_status" /\ response.status >= 400
     \/ response.status \in {400, 403, 404})
        => response.key = "Error"

\* C10 as stated: a create_roadmap request whose user_id matches no persisted
\* User is answered 404 and persists no Roadmap, Topic, Objectives or Resources.
C10_UnknownUser404 ==
    [][(/\ response'.op = "create_roadmap"
        /\ response'.arg # None
        /\ response'.arg \notin DOMAIN users)
            => (response'.status = 404 /\ UNCHANGED children)]_vars

\* C10, amended, one step: a create_roadmap request with a user_id that matches
\* no persisted User is answered 404 when it carries a non-empty Roadmap
\* payload and 400 when it does not, and persists nothing either way; every
\* Roadmap record a request persists is owned by a User persisted at that time.
C10_Step ==
    /\ (/\ response'.op = "create_roadmap"
        /\ response'.arg # None
        /\ response'.arg \notin DOMAIN users)
            => /\ response'.status = IF response'.keys = {} THEN 400 ELSE 404
               /\ UNCHANGED children
    /\ \A id \in DOMAIN roadmaps' \ DOMAIN roadmaps : roadmaps'[id].user_id \in DOMAIN users

\* C10, amended: a create_roadmap request that names a user_id matching no
\* persisted User and carries a non-empty Roadmap payload is answered 404 (400
\* when the payload is missing or empty) and persists no Roadmap, Topic,
\* Objectives or Resources; every Roadmap is persisted only by a request whose
\* user exists, the user check preceding every save.
C10_UserCheckFirst == [][C10_Step]_vars

\* C10 happens: a create_roadmap with a payload and an unknown user_id was answered 404.
C10_Witness ==
    /\ response.op = "create_roadmap"
    /\ response.arg # None
    /\ response.arg \notin DOMAIN users
    /\ response.keys # {}
    /\ response.status = 404

====
